---- MODULE Spec2Model ----
(***************************************************************************)
(* Model of backend/app.py: the task, note and category collections kept   *)
(* in three JSON files, and the request handlers that load a collection,   *)
(* change it in memory and write it back.                                  *)
(*                                                                         *)
(* A record (a JSON object / Python dict) is a function from field names   *)
(* to values; a key that is absent from the dict is absent from the        *)
(* function's domain.  A timestamp is the reading of the wall clock        *)
(* (datetime.now()), an integer here; isoformat() keeps its order.         *)
(***************************************************************************)
EXTENDS Integers, Sequences, FiniteSets, TLC

VARIABLES
    files,        \* path of each file that exists -> the list of records it holds
    unparseable,  \* the file paths whose content json.load cannot decode
    clock,        \* what datetime.now() returned the last time it was called
    resp,         \* the response of the last request served
    writes,       \* how many times write_data has been called
    threads       \* the requests being served concurrently, each with its position

vars == <<files, unparseable, clock, resp, writes, threads>>

(***************************************************************************)
(* Bounds of the model.                                                    *)
(***************************************************************************)
MaxWrites == 2   \* calls of write_data in one run
MaxClock == 1    \* last reading of the clock
MaxId == 2       \* ids 1..MaxId are asked for by get, replace and delete
MaxLen == 3      \* tasks in the file that the listing and the statistics read

TASKS_FILE == "tasks.json"
NOTES_FILE == "notes.json"
CATEGORIES_FILE == "categories.json"

FilePaths == {TASKS_FILE, NOTES_FILE, CATEGORIES_FILE}

DEFAULT_CATEGORIES ==
    << [id |-> 1, name |-> "Work", color |-> "#3b82f6"],
       [id |-> 2, name |-> "Personal", color |-> "#10b981"],
       [id |-> 3, name |-> "Shopping", color |-> "#f59e0b"],
       [id |-> 4, name |-> "Health", color |-> "#ef4444"],
       [id |-> 5, name |-> "Education", color |-> "#8b5cf6"] >>

(***************************************************************************)
(* Python dict and list helpers.                                           *)
(***************************************************************************)
EmptyDict == [k \in {} |-> 0]

\* d.get(key, default)
Get(d, key, default) == IF key \in DOMAIN d THEN d[key] ELSE default

\* d[key] = val
Put(d, key, val) ==
    [k \in (DOMAIN d) \cup {key} |-> IF k = key THEN val ELSE d[k]]

\* del lst[i]
DelAt(lst, i) == [j \in 1..(Len(lst) - 1) |-> IF j < i THEN lst[j] ELSE lst[j + 1]]

\* max(values, default=0)
MaxOf(S) == IF S = {} THEN 0 ELSE CHOOSE m \in S : \A n \in S : n <= m

NextId_by_length(records) == Len(records) + 1

NextId_above_one(records) ==
    MaxOf({Get(records[i], "id", 0) : i \in DOMAIN records} \cup {1}) + 1

\* max([r.get('id', 0) for r in records], default=0) + 1
NextId(records) == MaxOf({Get(records[i], "id", 0) : i \in DOMAIN records}) + 1

\* the indices i of enumerate(records) with records[i].get('id') == id
IndicesOf(records, id) ==
    {i \in DOMAIN records : Get(records[i], "id", 0) = id}

FirstIndex_or_last(records, id) ==
    IF IndicesOf(records, id) = {} THEN Len(records)
    ELSE CHOOSE i \in IndicesOf(records, id) : \A j \in IndicesOf(records, id) : i <= j

\* the first index at which the for loop of a handler finds id (0: none)
FirstIndex(records, id) ==
    IF IndicesOf(records, id) = {} THEN 0
    ELSE CHOOSE i \in IndicesOf(records, id) : \A j \in IndicesOf(records, id) : i <= j

RECURSIVE DeleteIndices(_, _)
\* for i in indices (sorted in reverse): del lst[i]
DeleteIndices(lst, indices) ==
    IF indices = {} THEN lst
    ELSE LET i == CHOOSE m \in indices : \A n \in indices : n <= m
         IN DeleteIndices(DelAt(lst, i), indices \ {i})

(***************************************************************************)
(* read_data and write_data.                                               *)
(***************************************************************************)
read_data_undecoded(file_path) ==
    IF file_path \notin DOMAIN files THEN <<>> ELSE files[file_path]

\* read_data: [] when os.path.exists is false, [] when open or json.load
\* raises, the decoded list otherwise
read_data(file_path) ==
    IF file_path \notin DOMAIN files THEN <<>>
    ELSE IF file_path \in unparseable THEN <<>>
    ELSE files[file_path]

\* What one call of write_data does: "ok" writes the whole list;
\* "open_failed" raises in open() and leaves the file as it was, absent if it
\* was absent; "dump_failed" raises in json.dump after open(..., 'w') created
\* or truncated the file.
WriteOutcomes == {"ok", "open_failed", "dump_failed"}

\* the value write_data returns
write_result(outcome) == outcome = "ok"

write_data_appending(file_path, data, outcome) ==
    /\ writes < MaxWrites
    /\ writes' = writes + 1
    /\ files' = IF outcome = "open_failed" THEN files
                 ELSE [p \in DOMAIN files \cup {file_path} |->
                          IF p # file_path THEN files[p]
                          ELSE IF outcome = "ok" THEN data ELSE <<>>]
    /\ unparseable' = IF outcome = "dump_failed" THEN unparseable \cup {file_path}
                      ELSE unparseable

write_data(file_path, data, outcome) ==
    /\ writes < MaxWrites
    /\ writes' = writes + 1
    /\ files' = IF outcome = "open_failed" THEN files
                 ELSE [p \in DOMAIN files \cup {file_path} |->
                          IF p # file_path THEN files[p]
                          ELSE IF outcome = "ok" THEN data ELSE <<>>]
    /\ unparseable' = IF outcome = "ok" THEN unparseable \ {file_path}
                      ELSE IF outcome = "dump_failed" THEN unparseable \cup {file_path}
                      ELSE unparseable

(***************************************************************************)
(* Validation.                                                             *)
(***************************************************************************)
validate_task(task) ==
    (IF Get(task, "title", "") = "" THEN <<"Title is required">> ELSE <<>>)
    \o (IF "completed" \notin DOMAIN task
        THEN <<"Completed status is required">> ELSE <<>>)

validate_note(note) ==
    IF Get(note, "title", "") = "" THEN <<"Title is required">> ELSE <<>>

(***************************************************************************)
(* Responses.  saved is what write_data returned to the handler ("none"    *)
(* when the handler did not call it).                                      *)
(***************************************************************************)
Response(op, status, id, body, details, count, saved) ==
    [op |-> op, status |-> status, id |-> id, body |-> body,
     details |-> details, count |-> count, saved |-> saved]

Saved(outcome) == IF write_result(outcome) THEN "yes" ELSE "no"

\* a handler that answers without touching any file
Answer(r) == /\ resp' = r
             /\ UNCHANGED <<files, unparseable, clock, writes, threads>>

\* What datetime.now() may return: the wall clock has not gone back since its
\* last reading, and has moved on or not.
Readings == clock..MaxClock

(***************************************************************************)
(* Request bodies.                                                         *)
(***************************************************************************)
TaskBodies ==
    { EmptyDict,
      [title |-> "a", completed |-> FALSE, category_id |-> 1],
      [title |-> ""],
      [completed |-> TRUE],
      [title |-> "b", completed |-> TRUE, id |-> 1, created_at |-> 9, updated_at |-> 9] }

Ids == 1..MaxId

NoteBodies ==
    { EmptyDict,
      [title |-> "a"],
      [content |-> "x"],
      [title |-> "b", id |-> 1, created_at |-> 9] }

CategoryBodies ==
    { EmptyDict,
      [name |-> "x"],
      [name |-> ""],
      [color |-> "#000000"],
      [name |-> "y", id |-> 1, color |-> "#000000"] }

\* what "#" + uuid.uuid4().hex[:6] may produce
RandomColors == {"#a1b2c3"}

BulkBodies == {EmptyDict} \cup {[ids |-> S] : S \in SUBSET Ids}

(***************************************************************************)
(* What the handlers compute between read_data and write_data.             *)
(***************************************************************************)
\* add_task: id if not provided, timestamps, default priority
new_task(task, tasks, now) ==
    LET t1 == IF "id" \notin DOMAIN task THEN Put(task, "id", NextId(tasks)) ELSE task
        t2 == Put(Put(t1, "created_at", now), "updated_at", now)
    IN IF "priority" \notin DOMAIN t2 THEN Put(t2, "priority", "medium") ELSE t2

\* add_note: id if not provided, timestamps
new_note(note, notes, now) ==
    LET n1 == IF "id" \notin DOMAIN note THEN Put(note, "id", NextId(notes)) ELSE note
    IN Put(Put(n1, "created_at", now), "updated_at", now)

\* add_category: id if not provided, default color if not provided
new_category(category, categories, color) ==
    LET c1 == IF "id" \notin DOMAIN category
              THEN Put(category, "id", NextId(categories)) ELSE category
    IN IF "color" \notin DOMAIN c1 THEN Put(c1, "color", color) ELSE c1

updated_task_keeps_candidate(task, task_data, task_id, now) ==
    Put(Put(Put(task_data, "id", task_id),
            "created_at", Get(task_data, "created_at", Get(task, "created_at", "None"))),
        "updated_at", now)

\* update_task: the new data with the id and the creation date of the old task
updated_task(task, task_data, task_id, now) ==
    Put(Put(Put(task_data, "id", task_id),
            "created_at", Get(task, "created_at", "None")),
        "updated_at", now)

\* update_note: the new data with the id and the creation date of the old note
updated_note(note, note_data, note_id, now) ==
    Put(Put(Put(note_data, "id", note_id),
            "created_at", Get(note, "created_at", "None")),
        "updated_at", now)

\* update_category: the new data with the id of the old category
updated_category(category_data, category_id) == Put(category_data, "id", category_id)

\* bulk_delete_tasks: the indices of the tasks to delete
indices_to_delete(tasks, task_ids) ==
    {i \in DOMAIN tasks : Get(tasks[i], "id", 0) \in task_ids}

(***************************************************************************)
(* Task handlers, each served from its first line to its response.         *)
(***************************************************************************)
add_task(task) ==
    IF task = EmptyDict
    THEN Answer(Response("add_task", 400, 0, EmptyDict, <<>>, 0, "none"))
    ELSE IF validate_task(task) # <<>>
    THEN Answer(Response("add_task", 400, 0, EmptyDict, validate_task(task), 0, "none"))
    ELSE \E now \in Readings, outcome \in WriteOutcomes :
            LET tasks == read_data(TASKS_FILE)
                t == new_task(task, tasks, now)
            IN /\ clock' = now
               /\ write_data(TASKS_FILE, Append(tasks, t), outcome)
               /\ resp' = Response("add_task", 201, t["id"], t, <<>>, 0, Saved(outcome))
               /\ UNCHANGED threads

get_task(task_id) ==
    LET tasks == read_data(TASKS_FILE)
        i == FirstIndex(tasks, task_id)
    IN IF i # 0
       THEN Answer(Response("get_task", 200, task_id, tasks[i], <<>>, 0, "none"))
       ELSE Answer(Response("get_task", 404, task_id, EmptyDict, <<>>, 0, "none"))

update_task(task_id, task_data) ==
    IF task_data = EmptyDict
    THEN Answer(Response("update_task", 400, task_id, EmptyDict, <<>>, 0, "none"))
    ELSE LET tasks == read_data(TASKS_FILE)
             i == FirstIndex(tasks, task_id)
         IN IF i = 0
            THEN Answer(Response("update_task", 404, task_id, EmptyDict, <<>>, 0, "none"))
            ELSE \E now \in Readings, outcome \in WriteOutcomes :
                 LET d == updated_task(tasks[i], task_data, task_id, now)
                 IN /\ clock' = now
                    /\ write_data(TASKS_FILE, [tasks EXCEPT ![i] = d], outcome)
                    /\ resp' = Response("update_task", 200, task_id, d, <<>>, 0,
                                        Saved(outcome))
                    /\ UNCHANGED threads

delete_task(task_id) ==
    LET tasks == read_data(TASKS_FILE)
        i == FirstIndex(tasks, task_id)
    IN IF i = 0
       THEN Answer(Response("delete_task", 404, task_id, EmptyDict, <<>>, 0, "none"))
       ELSE \E outcome \in WriteOutcomes :
            /\ write_data(TASKS_FILE, DelAt(tasks, i), outcome)
            /\ resp' = Response("delete_task", 200, task_id, EmptyDict, <<>>, 0, Saved(outcome))
            /\ UNCHANGED <<clock, threads>>

bulk_delete_tasks(data) ==
    IF data = EmptyDict
    THEN Answer(Response("bulk_delete_tasks", 400, 0, EmptyDict, <<>>, 0, "none"))
    ELSE LET task_ids == data["ids"]
             tasks == read_data(TASKS_FILE)
             deleted_count == Cardinality(indices_to_delete(tasks, task_ids))
         IN \E outcome \in WriteOutcomes :
            /\ write_data(TASKS_FILE,
                          DeleteIndices(tasks, indices_to_delete(tasks, task_ids)), outcome)
            /\ resp' = Response("bulk_delete_tasks", 200, 0, EmptyDict, <<>>,
                                deleted_count, Saved(outcome))
            /\ UNCHANGED <<clock, threads>>

(***************************************************************************)
(* Note handlers.                                                          *)
(***************************************************************************)
add_note(note) ==
    IF note = EmptyDict
    THEN Answer(Response("add_note", 400, 0, EmptyDict, <<>>, 0, "none"))
    ELSE IF validate_note(note) # <<>>
    THEN Answer(Response("add_note", 400, 0, EmptyDict, validate_note(note), 0, "none"))
    ELSE \E now \in Readings, outcome \in WriteOutcomes :
            LET notes == read_data(NOTES_FILE)
                n == new_note(note, notes, now)
            IN /\ clock' = now
               /\ write_data(NOTES_FILE, Append(notes, n), outcome)
               /\ resp' = Response("add_note", 201, n["id"], n, <<>>, 0, Saved(outcome))
               /\ UNCHANGED threads

get_note(note_id) ==
    LET notes == read_data(NOTES_FILE)
        i == FirstIndex(notes, note_id)
    IN IF i # 0
       THEN Answer(Response("get_note", 200, note_id, notes[i], <<>>, 0, "none"))
       ELSE Answer(Response("get_note", 404, note_id, EmptyDict, <<>>, 0, "none"))

update_note(note_id, note_data) ==
    IF note_data = EmptyDict
    THEN Answer(Response("update_note", 400, note_id, EmptyDict, <<>>, 0, "none"))
    ELSE LET notes == read_data(NOTES_FILE)
             i == FirstIndex(notes, note_id)
         IN IF i = 0
            THEN Answer(Response("update_note", 404, note_id, EmptyDict, <<>>, 0, "none"))
            ELSE \E now \in Readings, outcome \in WriteOutcomes :
                 LET d == updated_note(notes[i], note_data, note_id, now)
                 IN /\ clock' = now
                    /\ write_data(NOTES_FILE, [notes EXCEPT ![i] = d], outcome)
                    /\ resp' = Response("update_note", 200, note_id, d, <<>>, 0,
                                        Saved(outcome))
                    /\ UNCHANGED threads

delete_note(note_id) ==
    LET notes == read_data(NOTES_FILE)
        i == FirstIndex(notes, note_id)
    IN IF i = 0
       THEN Answer(Response("delete_note", 404, note_id, EmptyDict, <<>>, 0, "none"))
       ELSE \E outcome \in WriteOutcomes :
            /\ write_data(NOTES_FILE, DelAt(notes, i), outcome)
            /\ resp' = Response("delete_note", 200, note_id, EmptyDict, <<>>, 0, Saved(outcome))
            /\ UNCHANGED <<clock, threads>>

(***************************************************************************)
(* Category handlers.                                                      *)
(***************************************************************************)
get_categories ==
    Answer(Response("get_categories", 200, 0, EmptyDict, read_data(CATEGORIES_FILE), 0, "none"))

add_category(category) ==
    IF category = EmptyDict \/ "name" \notin DOMAIN category
    THEN Answer(Response("add_category", 400, 0, EmptyDict, <<>>, 0, "none"))
    ELSE LET categories == read_data(CATEGORIES_FILE)
         IN \E outcome \in WriteOutcomes, color \in RandomColors :
            LET c == new_category(category, categories, color)
            IN /\ write_data(CATEGORIES_FILE, Append(categories, c), outcome)
               /\ resp' = Response("add_category", 201, c["id"], c, <<>>, 0, Saved(outcome))
               /\ UNCHANGED <<clock, threads>>

update_category(category_id, category_data) ==
    IF category_data = EmptyDict \/ "name" \notin DOMAIN category_data
    THEN Answer(Response("update_category", 400, category_id, EmptyDict, <<>>, 0, "none"))
    ELSE LET categories == read_data(CATEGORIES_FILE)
             i == FirstIndex(categories, category_id)
             d == updated_category(category_data, category_id)
         IN IF i = 0
            THEN Answer(Response("update_category", 404, category_id, EmptyDict, <<>>, 0, "none"))
            ELSE \E outcome \in WriteOutcomes :
                 /\ write_data(CATEGORIES_FILE, [categories EXCEPT ![i] = d], outcome)
                 /\ resp' = Response("update_category", 200, category_id, d, <<>>, 0,
                                     Saved(outcome))
                 /\ UNCHANGED <<clock, threads>>

delete_category_cascading(category_id) ==
    LET categories == read_data(CATEGORIES_FILE)
        i == FirstIndex(categories, category_id)
        kept(task) == Get(task, "category_id", 0) # category_id
    IN IF i = 0
       THEN Answer(Response("delete_category", 404, category_id, EmptyDict, <<>>, 0, "none"))
       ELSE /\ writes < MaxWrites
            /\ writes' = writes + 1
            /\ files' = [files EXCEPT ![CATEGORIES_FILE] = DelAt(categories, i),
                                      ![TASKS_FILE] = SelectSeq(@, kept)]
            /\ unparseable' = unparseable \ {CATEGORIES_FILE}
            /\ resp' = Response("delete_category", 200, category_id, EmptyDict, <<>>, 0,
                                "yes")
            /\ UNCHANGED <<clock, threads>>

delete_category(category_id) ==
    LET categories == read_data(CATEGORIES_FILE)
        i == FirstIndex(categories, category_id)
    IN IF i = 0
       THEN Answer(Response("delete_category", 404, category_id, EmptyDict, <<>>, 0, "none"))
       ELSE \E outcome \in WriteOutcomes :
            /\ write_data(CATEGORIES_FILE, DelAt(categories, i), outcome)
            /\ resp' = Response("delete_category", 200, category_id, EmptyDict, <<>>, 0,
                                Saved(outcome))
            /\ UNCHANGED <<clock, threads>>

(***************************************************************************)
(* Statistics.  A rate is kept as its number of hundredths: 3333 is 33.33. *)
(***************************************************************************)
round_2_down(num, den) == (num * 10000) \div den

\* round(num / den * 100, 2): to the nearest hundredth, a tie to the even one
round_2(num, den) ==
    LET q == (num * 10000) \div den
        r == (num * 10000) % den
    IN IF 2 * r > den THEN q + 1
       ELSE IF 2 * r = den /\ q % 2 = 1 THEN q + 1
       ELSE q

\* sum(1 for task in tasks if task.get('completed'))
completed_tasks(tasks) ==
    Cardinality({i \in DOMAIN tasks : Get(tasks[i], "completed", FALSE)})

\* category_counts: how many tasks carry each category_id that is set
category_counts(tasks) ==
    LET set == {Get(tasks[i], "category_id", 0) : i \in DOMAIN tasks} \ {0}
    IN [category_id \in set |->
           Cardinality({i \in DOMAIN tasks : Get(tasks[i], "category_id", 0) = category_id})]

\* the summary get_stats answers with
stats(tasks, notes) ==
    LET total_tasks == Len(tasks)
        completed == completed_tasks(tasks)
    IN [tasks |-> [total |-> total_tasks,
                   completed |-> completed,
                   pending |-> total_tasks - completed,
                   completion_rate |-> IF total_tasks > 0
                                       THEN round_2(completed, total_tasks) ELSE 0,
                   by_category |-> category_counts(tasks)],
        notes |-> [total |-> Len(notes)]]

get_stats_saving ==
    \E outcome \in {"ok"} :
        /\ write_data(TASKS_FILE, read_data(TASKS_FILE), outcome)
        /\ resp' = Response("get_stats", 200, 0,
                            stats(read_data(TASKS_FILE), read_data(NOTES_FILE)),
                            <<>>, 0, "none")
        /\ UNCHANGED <<clock, threads>>

get_stats ==
    Answer(Response("get_stats", 200, 0,
                    stats(read_data(TASKS_FILE), read_data(NOTES_FILE)), <<>>, 0, "none"))

(***************************************************************************)
(* Listing with filters and a sort order.  The strings of the model are    *)
(* those of StringOrder, listed in the order Python compares them.         *)
(***************************************************************************)
StringOrder == <<"", "1", "2026-01-01", "2026-02-01", "A", "B", "a", "b", "x">>

\* the place of a string in the order of str.__lt__
StrRank(str) == CHOOSE i \in DOMAIN StringOrder : StringOrder[i] = str

\* str.lower()
lower(str) ==
    CASE str = "A" -> "a" [] str = "B" -> "b" [] str = "DESC" -> "desc" [] OTHER -> str

\* needle in hay, for strings with at most one character: the empty string
\* is in every string, a character only in itself
contains(hay, needle) == needle = "" \/ needle = hay

\* str.isdigit() and int(str) on the strings of the model
isdigit(str) == str \in {"1"}
int(str) == CASE str = "1" -> 1

\* the sort keys of the lambdas: x.get('title', '').lower(),
\* x.get('due_date', ''), x.get('created_at', ''); a timestamp comes after ''
title_key(x) == StrRank(lower(Get(x, "title", "")))
due_date_key(x) == StrRank(Get(x, "due_date", ""))
created_at_key(x) == IF "created_at" \in DOMAIN x THEN x["created_at"] + 1 ELSE 0

\* the place where the sort puts index i among the indices already in order:
\* behind every index whose key does not come after its own
insert(out, i, keys, reverse) ==
    LET n == Cardinality({k \in DOMAIN out :
                             IF reverse THEN keys[out[k]] >= keys[i]
                             ELSE keys[out[k]] <= keys[i]})
    IN SubSeq(out, 1, n) \o <<i>> \o SubSeq(out, n + 1, Len(out))

RECURSIVE sorted_indices(_, _, _)
sorted_indices(keys, reverse, n) ==
    IF n = 0 THEN <<>>
    ELSE insert(sorted_indices(keys, reverse, n - 1), n, keys, reverse)

sorted_then_reversed(lst, keys, reverse) ==
    LET order == sorted_indices(keys, FALSE, Len(lst))
    IN [k \in 1..Len(lst) |->
           lst[order[IF reverse THEN Len(lst) + 1 - k ELSE k]]]

\* sorted(lst, key=..., reverse=reverse), keys[i] being the key of lst[i]
sorted(lst, keys, reverse) ==
    LET order == sorted_indices(keys, reverse, Len(lst))
    IN [k \in 1..Len(lst) |-> lst[order[k]]]

\* the three filters of get_tasks, applied one after the other
filtered_tasks(tasks, query, status, category_id) ==
    LET by_query(task) == contains(lower(Get(task, "title", "")), lower(query))
        by_status(task) ==
            IF status = "completed" THEN Get(task, "completed", FALSE)
            ELSE IF status = "active" THEN ~Get(task, "completed", FALSE)
            ELSE TRUE
        by_category(task) ==
            IF category_id # "" /\ isdigit(category_id)
            THEN Get(task, "category_id", 0) = int(category_id)
            ELSE TRUE
    IN SelectSeq(SelectSeq(SelectSeq(tasks, by_query), by_status), by_category)

\* the filter of get_notes
filtered_notes(notes, query) ==
    LET by_query(note) ==
            \/ contains(lower(Get(note, "title", "")), lower(query))
            \/ contains(lower(Get(note, "content", "")), lower(query))
    IN SelectSeq(notes, by_query)

\* the key the sort of get_tasks uses for sort_by
task_keys(tasks, sort_by) ==
    [i \in DOMAIN tasks |->
        IF sort_by = "title" THEN title_key(tasks[i])
        ELSE IF sort_by = "due_date" THEN due_date_key(tasks[i])
        ELSE created_at_key(tasks[i])]

\* the key the sort of get_notes uses for sort_by
note_keys(notes, sort_by) ==
    [i \in DOMAIN notes |->
        IF sort_by = "title" THEN title_key(notes[i]) ELSE created_at_key(notes[i])]

\* request.args.get('order', 'desc').lower() == 'desc'
is_reverse(order) == lower(order) = "desc"

get_tasks(query, status, category_id, sort_by, order) ==
    LET tasks == filtered_tasks(read_data(TASKS_FILE), query, status, category_id)
    IN Answer(Response("get_tasks", 200, 0,
                       [query |-> query, status |-> status, category_id |-> category_id,
                        sort_by |-> sort_by, order |-> order],
                       sorted(tasks, task_keys(tasks, sort_by), is_reverse(order)),
                       0, "none"))

get_notes(query, sort_by, order) ==
    LET notes == filtered_notes(read_data(NOTES_FILE), query)
    IN Answer(Response("get_notes", 200, 0,
                       [query |-> query, sort_by |-> sort_by, order |-> order],
                       sorted(notes, note_keys(notes, sort_by), is_reverse(order)),
                       0, "none"))

(***************************************************************************)
(* The state after the start-up block of the module: the three files       *)
(* exist, the category file holds the defaults.                            *)
(***************************************************************************)
NoThreads == <<>>

Init ==
    /\ files = [p \in FilePaths |->
                   IF p = CATEGORIES_FILE THEN DEFAULT_CATEGORIES ELSE <<>>]
    /\ unparseable = {}
    /\ clock = 0
    /\ resp = Response("none", 0, 0, EmptyDict, <<>>, 0, "none")
    /\ writes = 0
    /\ threads = NoThreads

\* Requests served one after the other.
Next ==
    \/ \E task \in TaskBodies : add_task(task)
    \/ \E task_id \in Ids : get_task(task_id)
    \/ \E task_id \in Ids, task_data \in TaskBodies : update_task(task_id, task_data)
    \/ \E task_id \in Ids : delete_task(task_id)
    \/ \E data \in BulkBodies : bulk_delete_tasks(data)
    \/ \E note \in NoteBodies : add_note(note)
    \/ \E note_id \in Ids : get_note(note_id)
    \/ \E note_id \in Ids, note_data \in NoteBodies : update_note(note_id, note_data)
    \/ \E note_id \in Ids : delete_note(note_id)
    \/ \E category \in CategoryBodies : add_category(category)
    \/ get_categories
    \/ \E category_id \in Ids, category_data \in CategoryBodies :
           update_category(category_id, category_data)
    \/ \E category_id \in Ids : delete_category(category_id)
    \/ get_stats

Spec == Init /\ [][Next]_vars

(***************************************************************************)
(* read_data and write_data on every state a file may be found in: absent, *)
(* holding a list, or holding bytes that json.load cannot decode (what is  *)
(* left of a list that was there).                                         *)
(***************************************************************************)
\* a call of read_data(file_path)
read_data_call(file_path) ==
    Answer(Response("read_data", 0, 0, [file_path |-> file_path],
                    read_data(file_path), 0, "none"))

\* write_data(file_path, read_data(file_path))
round_trip(file_path) ==
    \E outcome \in WriteOutcomes :
        /\ write_data(file_path, read_data(file_path), outcome)
        /\ resp' = Response("round_trip", 0, 0, [file_path |-> file_path],
                            <<>>, 0, Saved(outcome))
        /\ UNCHANGED <<clock, threads>>

\* the lists a file may hold when the server finds it
StoredLists(file_path) ==
    IF file_path = CATEGORIES_FILE THEN {<<>>, DEFAULT_CATEGORIES}
    ELSE IF file_path = TASKS_FILE
    THEN {<<>>, <<new_task([title |-> "a", completed |-> FALSE], <<>>, 0)>>}
    ELSE {<<>>, <<new_note([title |-> "a"], <<>>, 0)>>}

StoreInit ==
    /\ \E present \in SUBSET FilePaths :
          /\ files \in [present -> UNION {StoredLists(p) : p \in FilePaths}]
          /\ \A p \in present : files[p] \in StoredLists(p)
          /\ unparseable \in SUBSET present
    /\ clock = 0
    /\ resp = Response("none", 0, 0, EmptyDict, <<>>, 0, "none")
    /\ writes = 0
    /\ threads = NoThreads

StoreNext ==
    \/ \E file_path \in FilePaths : read_data_call(file_path)
    \/ \E file_path \in FilePaths : round_trip(file_path)

StoreSpec == StoreInit /\ [][StoreNext]_vars

(***************************************************************************)
(* The read-only requests over the files that earlier requests left.  A    *)
(* task list is what MaxLen creates at most built, a task having lost its  *)
(* title to a replace or not; two creates that follow each other read the  *)
(* clock at the same reading or at two readings in a row.                  *)
(***************************************************************************)
QueryTaskBodies ==
    { [title |-> "a", completed |-> FALSE],
      [title |-> "A", completed |-> TRUE, category_id |-> 1, due_date |-> "2026-01-01"] }

LastStamp(records) ==
    IF records = <<>> THEN 0 ELSE records[Len(records)]["created_at"]

\* tasks after one more add_task, followed or not by an update_task that
\* carries neither title nor completed
Grow(tasks) ==
    UNION {
        {Append(tasks, new_task(task, tasks, now)) : task \in QueryTaskBodies}
        \cup {Append(tasks, updated_task(new_task([title |-> "a", completed |-> FALSE],
                                                  tasks, now),
                                         [priority |-> "low"], NextId(tasks), now))}
        : now \in {LastStamp(tasks), LastStamp(tasks) + 1} \cap (0..MaxClock) }

RECURSIVE TaskListsOfLen(_)
TaskListsOfLen(n) ==
    IF n = 0 THEN {<<>>} ELSE UNION {Grow(tasks) : tasks \in TaskListsOfLen(n - 1)}

QueryTaskLists == UNION {TaskListsOfLen(n) : n \in 0..MaxLen}

\* three notes of one clock reading: "a", "A", and one that lost its title to
\* a replace
QueryNotes ==
    LET n1 == <<new_note([title |-> "a"], <<>>, 0)>>
        n2 == Append(n1, new_note([title |-> "A", content |-> "x"], n1, 0))
        n3 == Append(n2, updated_note(new_note([title |-> "b"], n2, 0),
                                      [content |-> "a"], NextId(n2), 0))
    IN n3

Queries == {"", "A"}
Statuses == {"", "completed", "active"}
CategoryArgs == {"", "1"}
TaskSortKeys == {"created_at", "title", "due_date"}
NoteSortKeys == {"created_at", "title"}
Orders == {"DESC", "asc"}

QueryInit ==
    /\ \E tasks \in QueryTaskLists :
          files = [p \in FilePaths |->
                      IF p = CATEGORIES_FILE THEN DEFAULT_CATEGORIES
                      ELSE IF p = TASKS_FILE THEN tasks ELSE QueryNotes]
    /\ unparseable = {}
    /\ clock = 0
    /\ resp = Response("none", 0, 0, EmptyDict, <<>>, 0, "none")
    /\ writes = 0
    /\ threads = NoThreads

QueryNext ==
    \/ \E query \in Queries, status \in Statuses, category_id \in CategoryArgs,
          sort_by \in TaskSortKeys, order \in Orders :
           get_tasks(query, status, category_id, sort_by, order)
    \/ \E query \in Queries, sort_by \in NoteSortKeys, order \in Orders :
           get_notes(query, sort_by, order)
    \/ get_stats

QuerySpec == QueryInit /\ [][QueryNext]_vars

(***************************************************************************)
(* Requests on the task file served by two threads at once.  A handler    *)
(* that changes the file is then three steps: read_data; open(file_path,   *)
(* 'w'), which empties the file; json.dump, which fills it with the list   *)
(* the handler built from what it read.  get_task is two steps: read_data, *)
(* then the answer.  Every write succeeds here.  stale is a history flag:  *)
(* the other thread has written the file since this one read it.           *)
(***************************************************************************)
Threads == {1, 2}

IdleThread ==
    [pc |-> "idle", req |-> EmptyDict, tasks |-> <<>>, now |-> 0, pending |-> <<>>,
     status |-> 0, body |-> EmptyDict, stale |-> FALSE]

\* the requests that reach read_data: add_task with a valid task, update_task
\* with any task data, delete_task, bulk_delete_tasks with a list of ids,
\* get_task
ConcurrentRequests ==
    {[op |-> "add_task", task |-> b] : b \in {c \in TaskBodies \ {EmptyDict} : validate_task(c) = <<>>}}
    \cup {[op |-> "update_task", task_id |-> i, task_data |-> b] :
             i \in Ids, b \in TaskBodies \ {EmptyDict}}
    \cup {[op |-> "delete_task", task_id |-> i] : i \in Ids}
    \cup {[op |-> "bulk_delete_tasks", ids |-> S] : S \in SUBSET Ids}
    \cup {[op |-> "get_task", task_id |-> i] : i \in Ids}

\* the request raises NotFound on the list it read
raises_not_found(req, tasks) ==
    /\ req.op \in {"update_task", "delete_task", "get_task"}
    /\ FirstIndex(tasks, req.task_id) = 0

answer_body_from_file(req, tasks, now) ==
    CASE req.op = "add_task" -> new_task(req.task, read_data(TASKS_FILE), now)
      [] req.op = "update_task" ->
            updated_task(tasks[FirstIndex(tasks, req.task_id)], req.task_data,
                         req.task_id, now)
      [] req.op = "get_task" -> tasks[FirstIndex(tasks, req.task_id)]
      [] req.op = "delete_task" -> EmptyDict
      [] req.op = "bulk_delete_tasks" ->
            [deleted_count |-> Cardinality(indices_to_delete(tasks, req.ids))]

\* the record or count the handler answers with
answer_body(req, tasks, now) ==
    CASE req.op = "add_task" -> new_task(req.task, tasks, now)
      [] req.op = "get_task" -> tasks[FirstIndex(tasks, req.task_id)]
      [] req.op = "update_task" ->
            updated_task(tasks[FirstIndex(tasks, req.task_id)], req.task_data,
                         req.task_id, now)
      [] req.op = "delete_task" -> EmptyDict
      [] req.op = "bulk_delete_tasks" ->
            [deleted_count |-> Cardinality(indices_to_delete(tasks, req.ids))]

\* the list the handler hands to write_data, built from the list it read
mutated(req, tasks, now) ==
    CASE req.op = "add_task" -> Append(tasks, new_task(req.task, tasks, now))
      [] req.op = "update_task" ->
            [tasks EXCEPT ![FirstIndex(tasks, req.task_id)] = answer_body(req, tasks, now)]
      [] req.op = "delete_task" -> DelAt(tasks, FirstIndex(tasks, req.task_id))
      [] req.op = "bulk_delete_tasks" ->
            DeleteIndices(tasks, indices_to_delete(tasks, req.ids))

pending_write_from_file(t, now) == mutated(threads[t].req, read_data(TASKS_FILE), now)

\* the list thread t writes: the one it read, changed in memory
pending_write(t, now) == mutated(threads[t].req, threads[t].tasks, now)

\* tasks = read_data(TASKS_FILE)
handler_read(t, req) ==
    /\ threads[t].pc = "idle"
    /\ threads' = [threads EXCEPT ![t] =
                      [@ EXCEPT !.pc = "read", !.req = req, !.tasks = read_data(TASKS_FILE)]]
    /\ UNCHANGED <<files, unparseable, clock, resp, writes>>

\* raise NotFound: the handler answers 404 and writes nothing
handler_not_found(t) ==
    /\ threads[t].pc = "read"
    /\ raises_not_found(threads[t].req, threads[t].tasks)
    /\ threads' = [threads EXCEPT ![t] = [@ EXCEPT !.pc = "done", !.status = 404]]
    /\ UNCHANGED <<files, unparseable, clock, resp, writes>>

\* get_task: return jsonify(task) for the task found in the list read
handler_answer(t) ==
    /\ threads[t].pc = "read"
    /\ threads[t].req.op = "get_task"
    /\ ~raises_not_found(threads[t].req, threads[t].tasks)
    /\ threads' = [threads EXCEPT ![t] =
                      [@ EXCEPT !.pc = "done", !.status = 200,
                                !.body = answer_body(threads[t].req, threads[t].tasks,
                                                     clock)]]
    /\ UNCHANGED <<files, unparseable, clock, resp, writes>>

\* the change in memory, then write_data as far as open(file_path, 'w')
handler_open(t) ==
    /\ threads[t].pc = "read"
    /\ threads[t].req.op # "get_task"
    /\ ~raises_not_found(threads[t].req, threads[t].tasks)
    /\ \E now \in IF threads[t].req.op \in {"add_task", "update_task"}
                    THEN Readings ELSE {clock} :
          /\ clock' = now
          /\ threads' = [threads EXCEPT ![t] =
                            [@ EXCEPT !.pc = "opened", !.now = now,
                                      !.pending = pending_write(t, now)]]
    /\ files' = [files EXCEPT ![TASKS_FILE] = <<>>]
    /\ unparseable' = unparseable \cup {TASKS_FILE}
    /\ UNCHANGED <<resp, writes>>

\* json.dump(data, f), then the response
handler_dump(t) ==
    /\ threads[t].pc = "opened"
    /\ files' = [files EXCEPT ![TASKS_FILE] = threads[t].pending]
    /\ unparseable' = unparseable \ {TASKS_FILE}
    /\ threads' = [u \in Threads |->
                      IF u = t
                      THEN [threads[u] EXCEPT
                               !.pc = "done",
                               !.status = IF threads[u].req.op = "add_task" THEN 201 ELSE 200,
                               !.body = answer_body(threads[u].req, threads[u].tasks,
                                                    threads[u].now)]
                      ELSE [threads[u] EXCEPT
                               !.stale = @ \/ threads[u].pc \in {"read", "opened"}]]
    /\ UNCHANGED <<clock, resp, writes>>

\* the task file a start of the server may find: none yet, or one task that
\* add_task wrote in an earlier run
ConcurrentInit ==
    /\ files \in {[p \in FilePaths |->
                      IF p = CATEGORIES_FILE THEN DEFAULT_CATEGORIES
                      ELSE IF p = TASKS_FILE THEN tasks ELSE <<>>] :
                  tasks \in {<<>>, <<new_task([title |-> "a", completed |-> FALSE], <<>>, 0)>>}}
    /\ unparseable = {}
    /\ clock = 0
    /\ resp = Response("none", 0, 0, EmptyDict, <<>>, 0, "none")
    /\ writes = 0
    /\ threads = [t \in Threads |-> IdleThread]

ConcurrentNext ==
    \/ \E t \in Threads, req \in ConcurrentRequests : handler_read(t, req)
    \/ \E t \in Threads : handler_not_found(t)
    \/ \E t \in Threads : handler_answer(t)
    \/ \E t \in Threads : handler_open(t)
    \/ \E t \in Threads : handler_dump(t)

ConcurrentSpec == ConcurrentInit /\ [][ConcurrentNext]_vars

(***************************************************************************)
(* Properties.  The collection of a file is what read_data returns for it. *)
(***************************************************************************)
Collection(file_path) == read_data(file_path)

IdSet(records) == {Get(records[i], "id", 0) : i \in DOMAIN records}

\* the step leaves every file as it was
FilesUnchanged == files' = files /\ unparseable' = unparseable

\* id is max(ids, default 0) + 1
IsNextAfter(id, ids) ==
    /\ id \notin ids
    /\ \A x \in ids : x < id
    /\ (ids = {} /\ id = 1) \/ (id - 1 \in ids)

\* the required-field rules a candidate violates, by resource kind
TaskRulesViolated(c) ==
    {r \in {"title", "completed"} :
        \/ r = "title" /\ Get(c, "title", "") = ""
        \/ r = "completed" /\ "completed" \notin DOMAIN c}

NoteRulesViolated(c) == {r \in {"title"} : Get(c, "title", "") = ""}

CategoryRulesViolated(c) == {r \in {"name"} : Get(c, "name", "") = ""}

\* C1: no two records of a collection have the same id.
C1_UniqueIds ==
    \A p \in FilePaths : \A i, j \in DOMAIN Collection(p) :
        i # j => Collection(p)[i]["id"] # Collection(p)[j]["id"]

\* C2 as stated: every successful create returns the id max(previous ids,
\* default 0) + 1, which is none of the previous ids.
C2_EveryCreateAllocates ==
    [][ /\ \A task \in TaskBodies :
            (add_task(task) /\ resp'.status = 201)
            => IsNextAfter(resp'.body["id"], IdSet(Collection(TASKS_FILE)))
        /\ \A note \in NoteBodies :
            (add_note(note) /\ resp'.status = 201)
            => IsNextAfter(resp'.body["id"], IdSet(Collection(NOTES_FILE)))
        /\ \A category \in CategoryBodies :
            (add_category(category) /\ resp'.status = 201)
            => IsNextAfter(resp'.body["id"], IdSet(Collection(CATEGORIES_FILE)))
      ]_vars

\* C2 amended: every successful create whose candidate carries no id returns
\* the id max(previous ids, default 0) + 1, which is none of the previous ids.
C2_CreateWithoutIdAllocates ==
    [][ resp'.status = 201
        => /\ \A task \in TaskBodies :
                ("id" \notin DOMAIN task /\ add_task(task))
                => IsNextAfter(resp'.body["id"], IdSet(Collection(TASKS_FILE)))
           /\ \A note \in NoteBodies :
                ("id" \notin DOMAIN note /\ add_note(note))
                => IsNextAfter(resp'.body["id"], IdSet(Collection(NOTES_FILE)))
           /\ \A category \in CategoryBodies :
                ("id" \notin DOMAIN category /\ add_category(category))
                => IsNextAfter(resp'.body["id"], IdSet(Collection(CATEGORIES_FILE)))
      ]_vars

\* a create without an explicit id has answered with an id allocated over a
\* collection that was not empty (the only explicit id of the bodies is 1)
C2_Witness ==
    /\ resp.op \in {"add_task", "add_note", "add_category"}
    /\ resp.status = 201
    /\ resp.id > 1

ReplaceKeeps(r, old, id) ==
    /\ r["id"] = id
    /\ r["created_at"] = old["created_at"]
    /\ r["updated_at"] = clock'
    /\ (clock' > old["updated_at"] => r["updated_at"] > old["updated_at"])

C4_ReplaceValidates ==
    [][ /\ \A task_id \in Ids, task_data \in TaskBodies :
            ( /\ update_task(task_id, task_data)
              /\ task_id \in IdSet(Collection(TASKS_FILE))
              /\ TaskRulesViolated(task_data) # {} )
            => resp'.status = 400 /\ FilesUnchanged
        /\ \A note_id \in Ids, note_data \in NoteBodies :
            ( /\ update_note(note_id, note_data)
              /\ note_id \in IdSet(Collection(NOTES_FILE))
              /\ NoteRulesViolated(note_data) # {} )
            => resp'.status = 400 /\ FilesUnchanged
        /\ \A category_id \in Ids, category_data \in CategoryBodies :
            ( /\ update_category(category_id, category_data)
              /\ category_id \in IdSet(Collection(CATEGORIES_FILE))
              /\ CategoryRulesViolated(category_data) # {} )
            => resp'.status = 400 /\ FilesUnchanged
      ]_vars

\* C5: a create with a candidate that violates the required-field rules of
\* its kind is rejected (status 400) and leaves the collection unchanged; the
\* rejection of a task or note lists every violated rule; a valid candidate
\* is not rejected.
C5_CreateValidates ==
    [][ /\ \A task \in TaskBodies :
            add_task(task)
            => IF TaskRulesViolated(task) # {}
               THEN /\ resp'.status = 400
                    /\ FilesUnchanged
                    /\ task # EmptyDict
                       => Len(resp'.details) = Cardinality(TaskRulesViolated(task))
               ELSE resp'.status = 201
        /\ \A note \in NoteBodies :
            add_note(note)
            => IF NoteRulesViolated(note) # {}
               THEN /\ resp'.status = 400
                    /\ FilesUnchanged
                    /\ note # EmptyDict
                       => Len(resp'.details) = Cardinality(NoteRulesViolated(note))
               ELSE resp'.status = 201
        /\ \A category \in CategoryBodies :
            add_category(category)
            => IF CategoryRulesViolated(category) # {}
               THEN resp'.status = 400 /\ FilesUnchanged
               ELSE resp'.status = 201
      ]_vars

\* C6: a get(id) that immediately follows a successful delete(id) on the same
\* collection yields NotFound (status 404).
C6_DeleteThenGet ==
    [][ /\ \A task_id \in Ids :
            ( /\ resp.op = "delete_task" /\ resp.status = 200 /\ resp.id = task_id
              /\ get_task(task_id) )
            => resp'.status = 404
        /\ \A note_id \in Ids :
            ( /\ resp.op = "delete_note" /\ resp.status = 200 /\ resp.id = note_id
              /\ get_note(note_id) )
            => resp'.status = 404
      ]_vars

\* C7 as stated: get, replace and delete with an id that no record of the
\* collection carries yield NotFound (status 404) and leave the collection
\* exactly as it was.
C7_AbsentIdNotFound ==
    [][ /\ \A task_id \in Ids \ IdSet(Collection(TASKS_FILE)) :
            ( \/ get_task(task_id)
              \/ delete_task(task_id)
              \/ \E task_data \in TaskBodies : update_task(task_id, task_data) )
            => resp'.status = 404 /\ FilesUnchanged
        /\ \A note_id \in Ids \ IdSet(Collection(NOTES_FILE)) :
            ( \/ get_note(note_id)
              \/ delete_note(note_id)
              \/ \E note_data \in NoteBodies : update_note(note_id, note_data) )
            => resp'.status = 404 /\ FilesUnchanged
        /\ \A category_id \in Ids \ IdSet(Collection(CATEGORIES_FILE)) :
            ( \/ delete_category(category_id)
              \/ \E category_data \in CategoryBodies :
                     update_category(category_id, category_data) )
            => resp'.status = 404 /\ FilesUnchanged
      ]_vars

\* C7 amended: with an id that no record of the collection carries, get and
\* delete yield NotFound (404), and replace yields NotFound unless its
\* candidate is refused first as a bad request (400): an empty candidate or,
\* for a category, a candidate without a name key; in each of these cases the
\* collection is exactly what it was before the call.
C7_AbsentIdLeavesCollection ==
    [][ /\ resp'.op \in {"get_task", "delete_task", "update_task"}
           => \A task_id \in (Ids \ IdSet(Collection(TASKS_FILE))) \cap {resp'.id} :
                /\ (get_task(task_id) \/ delete_task(task_id))
                   => resp'.status = 404 /\ FilesUnchanged
                /\ \A task_data \in TaskBodies :
                     update_task(task_id, task_data)
                     => /\ resp'.status = IF task_data = EmptyDict THEN 400 ELSE 404
                        /\ FilesUnchanged
        /\ resp'.op \in {"get_note", "delete_note", "update_note"}
           => \A note_id \in (Ids \ IdSet(Collection(NOTES_FILE))) \cap {resp'.id} :
                /\ (get_note(note_id) \/ delete_note(note_id))
                   => resp'.status = 404 /\ FilesUnchanged
                /\ \A note_data \in NoteBodies :
                     update_note(note_id, note_data)
                     => /\ resp'.status = IF note_data = EmptyDict THEN 400 ELSE 404
                        /\ FilesUnchanged
        /\ resp'.op \in {"delete_category", "update_category"}
           => \A category_id \in (Ids \ IdSet(Collection(CATEGORIES_FILE))) \cap {resp'.id} :
                /\ delete_category(category_id) => resp'.status = 404 /\ FilesUnchanged
                /\ \A category_data \in CategoryBodies :
                     update_category(category_id, category_data)
                     => /\ resp'.status
                           = IF "name" \in DOMAIN category_data THEN 404 ELSE 400
                        /\ FilesUnchanged
      ]_vars

\* a delete or a replace was answered NotFound on a collection that holds
\* records, none of them with the id asked for
C7_Witness ==
    /\ resp.op \in {"delete_task", "update_task"}
    /\ resp.status = 404
    /\ Collection(TASKS_FILE) # <<>>
    /\ resp.id \notin IdSet(Collection(TASKS_FILE))

\* C8: bulk_delete(ids) removes exactly the tasks whose id is in ids, keeps
\* the others in their order, and returns the number of ids of the set that
\* were present before the call.
C8_BulkDeleteExact ==
    [][ \A data \in BulkBodies \ {EmptyDict} :
            bulk_delete_tasks(data)
            => LET Kept(r) == r["id"] \notin data["ids"]
               IN /\ resp'.status = 200
                  /\ Collection(TASKS_FILE)' = SelectSeq(Collection(TASKS_FILE), Kept)
                  /\ resp'.count
                     = Cardinality(data["ids"] \cap IdSet(Collection(TASKS_FILE)))
      ]_vars

\* C10: when write_data fails in a create, replace, delete or bulk_delete, the
\* response is a failed result, never a success.
C10_WriteFailureReported == resp.saved = "no" => resp.status >= 400

\* C9: the load-mutate-save cycle is not synchronized.  When both threads
\* have answered with success and one of them wrote after the other had
\* written behind its back, the task file is exactly the list that thread
\* built from what it had read: the change of the other thread is in it only
\* if it was already in that reading, so two creates leave one new record.
C9_StaleWriterOverwrites ==
    \A t \in Threads :
        ( /\ \A u \in Threads : threads[u].pc = "done" /\ threads[u].status \in {200, 201}
          /\ threads[t].req.op # "get_task"
          /\ threads[t].stale )
        => /\ TASKS_FILE \notin unparseable
           /\ files[TASKS_FILE] = mutated(threads[t].req, threads[t].tasks, threads[t].now)
           /\ (\A u \in Threads : threads[u].req.op = "add_task")
              => Len(files[TASKS_FILE]) = Len(threads[t].tasks) + 1

\* both threads created a task and were answered 201, each read the file
\* before the other wrote, and the file holds the task of only one of them
C9_Witness ==
    \E t, u \in Threads :
        /\ t # u
        /\ threads[t].pc = "done" /\ threads[u].pc = "done"
        /\ threads[t].req.op = "add_task" /\ threads[u].req.op = "add_task"
        /\ threads[t].status = 201 /\ threads[u].status = 201
        /\ threads[t].tasks = threads[u].tasks
        /\ threads[t].stale
        /\ \E i \in DOMAIN files[TASKS_FILE] : files[TASKS_FILE][i] = threads[t].body
        /\ \A i \in DOMAIN files[TASKS_FILE] : files[TASKS_FILE][i] # threads[u].body

\* C11: read_data never fails: it returns the empty list when the file is
\* absent and when the file exists but cannot be decoded, the list the file
\* holds otherwise, and it leaves the file as it was (absent, undecodable or
\* holding the same list).
C11_LoadTotal ==
    [][ \A file_path \in FilePaths :
            read_data_call(file_path)
            => /\ resp'.details
                  = IF file_path \in DOMAIN files /\ file_path \notin unparseable
                    THEN files[file_path] ELSE <<>>
               /\ FilesUnchanged
      ]_vars

\* read_data returned the empty list for a file that exists, holds what is
\* left of a non-empty list and cannot be decoded, while another file is absent
C11_Witness ==
    /\ resp.op = "read_data"
    /\ resp.details = <<>>
    /\ resp.body.file_path \in unparseable
    /\ files[resp.body.file_path] # <<>>
    /\ DOMAIN files # FilePaths

\* C12: in every state of a file, write_data(read_data()) succeeds and leaves
\* the collection (what read_data returns) unchanged, and a second round trip
\* leaves the file as the first one left it.
C12_RoundTrip ==
    [][ \A file_path \in FilePaths :
            round_trip(file_path)
            => /\ resp'.saved = "yes"
               /\ Collection(file_path)' = Collection(file_path)
               /\ (resp.op = "round_trip" /\ resp.body.file_path = file_path
                      /\ resp.saved = "yes")
                  => FilesUnchanged
      ]_vars

\* C14: get_stats is read-only: it leaves the task, note and category files
\* exactly as they were and writes nothing, and a get_stats that follows a
\* get_stats answers with the same summary.
C14_StatsReadOnly ==
    [][ get_stats
        => /\ FilesUnchanged
           /\ writes' = writes
           /\ resp.op = "get_stats" => resp'.body = resp.body
      ]_vars

\* get_stats has answered over a task file that holds a task and a note file
\* that cannot be decoded
C14_Witness ==
    /\ resp.op = "get_stats"
    /\ resp.body.tasks.total = 1
    /\ resp.body.notes.total = 0
    /\ NOTES_FILE \in unparseable

\* C15: for every task list, get_stats returns total = the number of tasks,
\* completed = the number of tasks whose completed is true, pending = total -
\* completed, and completion_rate = 0 when total is 0, otherwise the hundredth
\* nearest to completed / total * 100 (33.33 for 1 completed of 3).
C15_StatsValues ==
    resp.op = "get_stats"
    => LET tasks == Collection(TASKS_FILE)
           t == resp.body.tasks
           done == {i \in DOMAIN tasks :
                       "completed" \in DOMAIN tasks[i] /\ tasks[i]["completed"] = TRUE}
           diff == t.completion_rate * t.total - t.completed * 10000
       IN /\ t.total = Len(tasks)
          /\ t.completed = Cardinality(done)
          /\ t.pending = t.total - t.completed
          /\ t.total = 0 => t.completion_rate = 0
          /\ t.total > 0 => 2 * diff <= t.total /\ -2 * diff <= t.total
          /\ (t.total = 3 /\ t.completed = 1) => t.completion_rate = 3333

\* get_stats has answered 33.33 over three tasks of which one is completed
\* and one carries no completed key
C15_Witness ==
    /\ resp.op = "get_stats"
    /\ resp.body.tasks.total = 3
    /\ resp.body.tasks.completed = 1
    /\ resp.body.tasks.completion_rate = 3333
    /\ \E i \in DOMAIN Collection(TASKS_FILE) :
          "completed" \notin DOMAIN Collection(TASKS_FILE)[i]

\* the place a record of a listing has in the collection it was read from
PlaceIn(records, r) == CHOOSE i \in DOMAIN records : records[i] = r

\* the sort key of a listed record for the sort_by of the request
KeyOf(r, sort_by) ==
    IF sort_by = "title" THEN title_key(r)
    ELSE IF sort_by = "due_date" /\ resp.op = "get_tasks" THEN due_date_key(r)
    ELSE created_at_key(r)

\* C16: a listing is sorted by the key asked for, ascending or descending,
\* and it is stable in both directions: two records with equal keys (titles
\* compared without case, a missing key as the empty string) are listed in
\* the order they have in the collection; in ascending title order the
\* records without a title come before every record with a non-empty title.
C16_SortStable ==
    resp.op \in {"get_tasks", "get_notes"}
    => LET listed == resp.details
           records == Collection(IF resp.op = "get_tasks" THEN TASKS_FILE ELSE NOTES_FILE)
           sort_by == resp.body.sort_by
           descending == resp.body.order \in {"desc", "DESC"}
       IN \A i, j \in DOMAIN listed :
            i < j
            => /\ IF descending
                  THEN KeyOf(listed[i], sort_by) >= KeyOf(listed[j], sort_by)
                  ELSE KeyOf(listed[i], sort_by) <= KeyOf(listed[j], sort_by)
               /\ KeyOf(listed[i], sort_by) = KeyOf(listed[j], sort_by)
                  => PlaceIn(records, listed[i]) < PlaceIn(records, listed[j])
               /\ (sort_by = "title" /\ ~descending /\ "title" \notin DOMAIN listed[j])
                  => Get(listed[i], "title", "") = ""

\* a descending listing by title holds "a" before "A", as in the task file,
\* and a task without a title behind them
C16_Witness ==
    /\ resp.op = "get_tasks"
    /\ resp.body.sort_by = "title"
    /\ resp.body.order = "DESC"
    /\ \E i, j, k \in DOMAIN resp.details :
          /\ i < j /\ j < k
          /\ Get(resp.details[i], "title", "") = "a"
          /\ Get(resp.details[j], "title", "") = "A"
          /\ "title" \notin DOMAIN resp.details[k]

\* C17: delete_category leaves the task file and the note file exactly as
\* they were, whether a category was deleted or not: a task that carries the
\* id of the deleted category keeps it.
C17_DeleteCategoryFrame ==
    [][ resp'.op = "delete_category"
        => \A category_id \in {resp'.id} :
              delete_category(category_id)
              => /\ \A p \in {TASKS_FILE, NOTES_FILE} :
                       /\ p \in DOMAIN files' /\ files'[p] = files[p]
                       /\ p \in unparseable' <=> p \in unparseable
                 /\ Collection(TASKS_FILE)' = Collection(TASKS_FILE)
      ]_vars

\* a category was deleted and the task file holds a task whose category_id is
\* the id of that category, which no category carries any more
C17_Witness ==
    /\ resp.op = "delete_category"
    /\ resp.status = 200
    /\ resp.saved = "yes"
    /\ resp.id \notin IdSet(Collection(CATEGORIES_FILE))
    /\ \E i \in DOMAIN Collection(TASKS_FILE) :
          Get(Collection(TASKS_FILE)[i], "category_id", 0) = resp.id

\* C13: a get_task served while another thread changes the task file reads
\* a consistent snapshot: the whole list as it was before the write of that
\* thread or the whole list after it, never an emptied file.
C13_ReaderSeesSnapshot ==
    [][ \A t \in Threads, task_id \in Ids :
            handler_read(t, [op |-> "get_task", task_id |-> task_id])
            => \A u \in Threads \ {t} :
                  threads[u].pc = "opened"
                  => threads'[t].tasks \in {threads[u].tasks, threads[u].pending}
      ]_vars

\* C18: the id of a create depends on the ids of the list read only: a
\* create without an explicit id over a task file that holds no task is
\* answered with id 1, also when a task with id 1 was deleted before.
C18_EmptyAllocatesOne ==
    \A t \in Threads :
        ( /\ threads[t].pc = "done"
          /\ threads[t].req.op = "add_task"
          /\ "id" \notin DOMAIN threads[t].req.task
          /\ threads[t].tasks = <<>> )
        => threads[t].status = 201 /\ threads[t].body["id"] = 1

\* one request deleted the only task, which had id 1, and the create served
\* after it was answered with id 1; the file holds the new task alone
C18_Witness ==
    \E t, u \in Threads :
        /\ threads[u].pc = "done" /\ threads[u].req.op = "delete_task"
        /\ threads[u].status = 200 /\ ~threads[u].stale
        /\ Len(threads[u].tasks) = 1 /\ threads[u].tasks[1]["id"] = 1
        /\ threads[t].pc = "done" /\ threads[t].req.op = "add_task"
        /\ "id" \notin DOMAIN threads[t].req.task
        /\ ~threads[t].stale
        /\ threads[t].tasks = <<>>
        /\ threads[t].body["id"] = 1
        /\ Collection(TASKS_FILE) = <<threads[t].body>>

\* C19: two creates without an explicit id that were served at once and read
\* the same list are both answered 201 with the same id.
C19_SameSnapshotSameId ==
    \A t, u \in Threads :
        ( /\ t # u
          /\ threads[t].pc = "done" /\ threads[u].pc = "done"
          /\ threads[t].req.op = "add_task" /\ threads[u].req.op = "add_task"
          /\ "id" \notin DOMAIN threads[t].req.task
          /\ "id" \notin DOMAIN threads[u].req.task
          /\ threads[t].tasks = threads[u].tasks )
        => /\ threads[t].status = 201 /\ threads[u].status = 201
           /\ threads[t].body["id"] = threads[u].body["id"]

\* both creates read the task file holding one task before either wrote, and
\* both were answered 201 with id 2
C19_Witness ==
    \E t, u \in Threads :
        /\ t # u
        /\ threads[t].pc = "done" /\ threads[u].pc = "done"
        /\ threads[t].req.op = "add_task" /\ threads[u].req.op = "add_task"
        /\ "id" \notin DOMAIN threads[t].req.task
        /\ "id" \notin DOMAIN threads[u].req.task
        /\ Len(threads[t].tasks) = 1 /\ threads[t].tasks = threads[u].tasks
        /\ threads[t].status = 201 /\ threads[u].status = 201
        /\ threads[t].body["id"] = 2 /\ threads[u].body["id"] = 2

\* C20: when a file exists but cannot be decoded, a create without an
\* explicit id whose write succeeds leaves the file decodable and holding
\* exactly one record, the new one, with id 1.
C20_CreateOverUndecodable ==
    [][ (resp'.status = 201 /\ resp'.saved = "yes" /\ unparseable # {})
        => /\ \A task \in TaskBodies :
                ("id" \notin DOMAIN task /\ TASKS_FILE \in unparseable /\ add_task(task))
                => /\ resp'.id = 1
                   /\ TASKS_FILE \notin unparseable'
                   /\ files'[TASKS_FILE] = <<resp'.body>>
           /\ \A note \in NoteBodies :
                ("id" \notin DOMAIN note /\ NOTES_FILE \in unparseable /\ add_note(note))
                => /\ resp'.id = 1
                   /\ NOTES_FILE \notin unparseable'
                   /\ files'[NOTES_FILE] = <<resp'.body>>
           /\ \A category \in CategoryBodies :
                ( /\ "id" \notin DOMAIN category
                  /\ CATEGORIES_FILE \in unparseable
                  /\ add_category(category) )
                => /\ resp'.id = 1
                   /\ CATEGORIES_FILE \notin unparseable'
                   /\ files'[CATEGORIES_FILE] = <<resp'.body>>
      ]_vars

\* a category created without an explicit id got id 1 and is alone in the
\* category file: the five default categories are gone, which only a file
\* that could not be decoded explains within two writes
C20_Witness ==
    /\ resp.op = "add_category"
    /\ resp.status = 201
    /\ resp.saved = "yes"
    /\ resp.id = 1
    /\ resp.body["name"] = "x"
    /\ Collection(CATEGORIES_FILE) = <<resp.body>>
====
